---- MODULE Spec2Model ----
(***************************************************************************)
(* Pipeline step execution engine of CircToolBox.                          *)
(*                                                                         *)
(* The module models                                                       *)
(*   - the canonical order table and ensure_steps_order                    *)
(*     (backend/constants/step_mapping.py),                                *)
(*   - the pipeline / step rows of the state store and the update          *)
(*     operations of PipelineManager / PipelineManagerSync                 *)
(*     (backend/database/pipeline_manager.py),                             *)
(*   - the dispatcher: start_pipeline_execution, run_next_pending_step     *)
(*     (pipeline_execution_orchestrator.py) and the Celery tasks           *)
(*     execute_pipeline, execute_step (tasks/pipeline_tasks.py),           *)
(*   - the retry loops of the tool services (bwa_aligner.py,               *)
(*     ciri2_predictor.py, srr_service.py, uniprot_data_preparer.py).      *)
(*                                                                         *)
(* The state store is modelled at the level of its queries: a get returns  *)
(* the row, an update writes the field; the SQL session machinery below    *)
(* that level is not modelled.                                             *)
(***************************************************************************)
EXTENDS Integers, Sequences, FiniteSets, Bags, TLC

\* ------------------------------------------------------------------ bounds
\* Longest step list handed to register_pipeline when the engine is driven once.
MaxSteps == 3
\* Longest step list handed to register_pipeline under any interleaving.
MaxStepsAny == 2
\* Number of Celery worker slots.
NumWorkers == 2
\* Under any interleaving: calls of run_next_pending_step made by the outside
\* world plus redeliveries of an unacknowledged message by the broker.
MaxEvents == 2
\* Longest list handed to ensure_steps_order on its own.
MaxLen == 3
\* Largest max_retries of a tool service.
MaxRetries == 3

\* ------------------------------------------------- canonical order table
STEP_EXECUTION_ORDER ==
    << "SRRDataManager", "BWAAligner", "CIRI2Processor",
       "UniProtDataPreparer", "GOAnnotationFetcher" >>

STEP_ORCHESTRATORS ==
    { "SRRDataManager", "BWAAligner", "CIRI2Processor",
      "UniProtDataPreparer", "GOAnnotationFetcher" }

\* A name that is in no table.
UnknownStep == "NoSuchStep"

StepNames == STEP_ORCHESTRATORS \cup {UnknownStep}

\* A dict with no entry.
EmptyMap == [k \in {} |-> 0]

\* GLOBAL_INPUT_MAPPING.get(step_name, {})
GLOBAL_INPUT_MAPPING(name) ==
    CASE name = "SRRDataManager" -> EmptyMap
      [] name = "BWAAligner" -> [k \in {"compact_directory"} |-> "SRRDataManager"]
      [] name = "CIRI2Processor" -> [k \in {"sam_directory"} |-> "BWAAligner"]
      [] OTHER -> EmptyMap

\* name in STEP_EXECUTION_ORDER
InOrderTable(name) == \E i \in 1..Len(STEP_EXECUTION_ORDER) : STEP_EXECUTION_ORDER[i] = name

\* STEP_EXECUTION_ORDER.index(name): 0-based position of the first occurrence;
\* only used where InOrderTable(name) (list.index raises ValueError otherwise).
OrderIndex(name) ==
    (CHOOSE i \in 1..Len(STEP_EXECUTION_ORDER) :
        /\ STEP_EXECUTION_ORDER[i] = name
        /\ \A j \in 1..(i - 1) : STEP_EXECUTION_ORDER[j] # name) - 1

\* min / max of a non-empty list of integers
MinOf(s) == CHOOSE x \in {s[i] : i \in 1..Len(s)} : \A i \in 1..Len(s) : x <= s[i]
MaxOf(s) == CHOOSE x \in {s[i] : i \in 1..Len(s)} : \A i \in 1..Len(s) : x >= s[i]

\* list(range(lo, hi + 1))
RangeList(lo, hi) == [i \in 1..(hi - lo + 1) |-> lo + i - 1]

\* sorted(..., key=...): Python's sort is stable. Here by insertion, each element
\* placed after every element whose key is not greater.
RECURSIVE InsertByKey(_, _, _)
InsertByKey(sorted, x, key) ==
    IF sorted = << >> THEN << x >>
    ELSE IF key[x] < key[Head(sorted)]
         THEN << x >> \o sorted
         ELSE << Head(sorted) >> \o InsertByKey(Tail(sorted), x, key)

RECURSIVE SortedByKey(_, _)
SortedByKey(s, key) ==
    IF s = << >> THEN << >>
    ELSE InsertByKey(SortedByKey(SubSeq(s, 1, Len(s) - 1), key), s[Len(s)], key)

\* ensure_steps_order with the comparison of lines 61-66 left out: the steps are
\* sorted, gaps and duplicates pass.
ensure_steps_order_sort_only(names) ==
    IF \E i \in 1..Len(names) : ~InOrderTable(names[i])
    THEN [err |-> "invalid_name", sorted_steps |-> << >>]
    ELSE IF Len(names) = 0
    THEN [err |-> "empty", sorted_steps |-> << >>]
    ELSE [err |-> "none",
          sorted_steps |-> SortedByKey([i \in 1..Len(names) |-> i],
                                       [i \in 1..Len(names) |-> OrderIndex(names[i])])]

\* ensure_steps_order(steps), on the list of the steps' step_name. The steps are
\* named by their position in the list handed in. Result: err is "none" and
\* sorted_steps the positions in execution order, or err names the ValueError.
ensure_steps_order(names) ==
    LET pos == [i \in 1..Len(names) |-> i]
    IN  IF \E i \in 1..Len(names) : ~InOrderTable(names[i])
        THEN [err |-> "invalid_name", sorted_steps |-> << >>]
        ELSE LET idx == [i \in 1..Len(names) |-> OrderIndex(names[i])]
                 sorted_steps == SortedByKey(pos, idx)
             IN  IF Len(names) = 0
                 THEN [err |-> "empty", sorted_steps |-> << >>]
                 ELSE LET expected == RangeList(MinOf(idx), MaxOf(idx))
                          sortedIdx == [i \in 1..Len(names) |-> idx[sorted_steps[i]]]
                      IN  IF sortedIdx # expected
                          THEN [err |-> "not_contiguous", sorted_steps |-> << >>]
                          ELSE [err |-> "none", sorted_steps |-> sorted_steps]


\* _is_contiguous_subset comparing the indices as they come, not sorted, with
\* the range.
is_contiguous_subset_unsorted(step_names) ==
    IF \E i \in 1..Len(step_names) : ~InOrderTable(step_names[i])
    THEN "error"
    ELSE LET indices == [i \in 1..Len(step_names) |-> OrderIndex(step_names[i])]
         IN  IF Len(indices) = 0 THEN "false"
             ELSE IF indices = RangeList(MinOf(indices), MaxOf(indices))
                  THEN "true" ELSE "false"

\* PipelineRegistrationOrchestrator._is_contiguous_subset(step_names):
\* "error" is the ValueError for a name outside the table.
is_contiguous_subset(step_names) ==
    IF \E i \in 1..Len(step_names) : ~InOrderTable(step_names[i])
    THEN "error"
    ELSE LET indices == [i \in 1..Len(step_names) |-> OrderIndex(step_names[i])]
         IN  IF Len(indices) = 0 THEN "false"
             ELSE IF SortedByKey(indices, [x \in 0..Len(STEP_EXECUTION_ORDER) |-> x])
                        = RangeList(MinOf(indices), MaxOf(indices))
                  THEN "true" ELSE "false"

\* _get_first_step_index(steps): indices.index(min(indices)), as a 1-based position
first_step_index(step_names) ==
    LET indices == [i \in 1..Len(step_names) |-> OrderIndex(step_names[i])]
    IN  CHOOSE i \in 1..Len(indices) :
            /\ indices[i] = MinOf(indices)
            /\ \A j \in 1..(i - 1) : indices[j] # MinOf(indices)

\* ------------------------------------------------------------ the state
VARIABLES
    pipelines,   \* pipelines table: pipeline id -> status
    steps,       \* pipeline_steps table: row number (the step id) -> row
    queue,       \* Celery queue: bag of messages not yet taken by a worker
    task,        \* per worker slot: the execute_step task it is running and where
    trig,        \* calls of run_next_pending_step and redeliveries still to come
    lastCall,    \* outcome of the last call of the HTTP-side orchestrator
    enq,         \* history: bag of <<sender, step id>> for every message sent
    invoked,     \* history: bag of [step_id, outcome, input_data] for every adapter call
    done,        \* history: bag of <<task kind, step id, outcome>> for every task ended
    ordIn,       \* ensure_steps_order on its own: the list handed in
    ordOut,      \* ... and what it gave
    ordOut2,     \* ... what a second call on the same list gave
    ordOutOfOut, \* ... what a call on the list it returned gave
    ordTable,    \* ... the module-level list STEP_EXECUTION_ORDER
    ordContig,   \* ... what _is_contiguous_subset gave for the names of the list
    rTool,       \* retry loop: which service's loop
    rN,          \* retry loop: max_retries
    rFails,      \* retry loop: per attempt, whether the command fails
    rAttempts,   \* retry loop: attempts made
    rValid,      \* retry loop: whether the output of the successful attempt passes validation
    rState,      \* retry loop: "idle", "looping", "ok" (left by break/return), "raised",
                 \* "gave_up" (attempts ran out, nothing raised), "validated",
                 \* "invalid" (RuntimeError for an invalid output)
    fsProj,      \* SRR files: per pipeline, the BioProject its SRRDataManager step names
    fsPc,        \* SRR files: per pipeline, where its SRRDataManager step is
    fsFiles,     \* SRR files: the paths that exist
    fsTouched,   \* SRR files: history, set of <<pipeline, path, "r" or "w">>
    kTool,       \* skip check: which unit of work
    kForce,      \* skip check: force_run (force_redownload for the SRR step)
    kFile,       \* skip check: state of the declared output file
    kSrrFiles,   \* skip check: which compressed files of the accession exist
    kRan,        \* skip check: whether the external tool was invoked
    kPc,         \* skip check: "idle", "start", "skipped", "ran", "not_run", "accepted", "rejected"
    uRows,       \* status update: per pipeline id, the row (status, end_time) or NoRow
    uCall        \* status update: the last call (function, id, status asked for, result)

storeVars == << pipelines, steps >>
engineVars == << pipelines, steps, queue, task, trig, lastCall, enq, invoked, done >>
orderVars == << ordIn, ordOut, ordOut2, ordOutOfOut, ordTable, ordContig >>
retryVars == << rTool, rN, rFails, rAttempts, rValid, rState >>
fileVars == << fsProj, fsPc, fsFiles, fsTouched >>
skipVars == << kTool, kForce, kFile, kSrrFiles, kRan, kPc >>
statusVars == << uRows, uCall >>
vars == << pipelines, steps, queue, task, trig, lastCall, enq, invoked, done,
           ordIn, ordOut, ordOut2, ordOutOfOut, ordTable, ordContig, rTool, rN, rFails, rAttempts, rValid, rState,
           fsProj, fsPc, fsFiles, fsTouched,
           kTool, kForce, kFile, kSrrFiles, kRan, kPc,
           uRows, uCall >>

PipelineIds == {1}
Workers == 1..NumWorkers

\* Declared input files of the first step of a pipeline (opaque value).
InputFileChoices == { [k \in {"bioprojects_input"} |-> 9] }

\* What a step adapter may return: a small map of output keys.
OutputMaps ==
    { [k \in {"srr_paths"} |-> 7],
      [k \in {"compact_directory", "sam_directory", "srr_paths"} |->
            IF k = "srr_paths" THEN 7 ELSE 1] }

\* Steps whose service ends a failed unit of work with "raise SystemExit(...)"
\* (uniprot_data_preparer.py, quickgo_annotation_fetcher.py, data_handler.py).
SystemExitSteps == { "UniProtDataPreparer", "GOAnnotationFetcher" }

\* How a call of a step adapter may end: it returns a map, it raises an
\* Exception, or (exits) what it raises is SystemExit, which is no Exception.
\* Before the call, get_step_orchestrator imports the adapter's module by name
\* and the class is constructed; found is FALSE when that raises (ImportError
\* of a module the adapter needs, or the constructor), and the adapter is then
\* never called.
AdapterOutcomes ==
    { [found |-> FALSE, raised |-> FALSE, exits |-> FALSE, output |-> EmptyMap],
      [found |-> TRUE, raised |-> TRUE, exits |-> FALSE, output |-> EmptyMap],
      [found |-> TRUE, raised |-> TRUE, exits |-> TRUE, output |-> EmptyMap] }
        \cup { [found |-> TRUE, raised |-> FALSE, exits |-> FALSE, output |-> o] :
                    o \in OutputMaps }

NoMsg == [kind |-> "none", pipeline_id |-> 0, step_id |-> 0, step_name |-> "",
          input_data |-> EmptyMap]
IdleTask == [pc |-> "idle", msg |-> NoMsg, input_data |-> EmptyMap]

ExecutePipelineMsg(p) ==
    [kind |-> "execute_pipeline", pipeline_id |-> p, step_id |-> 0, step_name |-> "",
     input_data |-> EmptyMap]

ExecuteStepMsg(p, sid, input) ==
    [kind |-> "execute_step", pipeline_id |-> p, step_id |-> sid,
     step_name |-> steps[sid].step_name, input_data |-> input]

\* A sender that puts its message on the queue twice.
Send_twice(m) == queue (+) SetToBag({m}) (+) SetToBag({m})

Send(m) == queue (+) SetToBag({m})
Note(bag, e) == bag (+) SetToBag({e})

\* ------------------------------------------------------ the state store
\* The table with one more entry: a completed pipeline may be set running again.
valid_transitions_reopen(current) ==
    CASE current = "pending" -> {"running", "failed"}
      [] current = "running" -> {"completed", "failed"}
      [] current = "completed" -> {"running"}
      [] current = "failed" -> {}
      [] OTHER -> {}

\* valid_transitions.get(current, [])
valid_transitions(current) ==
    CASE current = "pending" -> {"running", "failed"}
      [] current = "running" -> {"completed", "failed"}
      [] current = "completed" -> {}
      [] current = "failed" -> {}
      [] OTHER -> {}

\* update_pipeline_status / update_pipeline_status_sync: whether the call goes
\* through; it raises otherwise and writes nothing.
PipelineUpdateAllowed(p, status) ==
    /\ p \in DOMAIN pipelines
    /\ status \in valid_transitions(pipelines[p])

update_pipeline_status(p, status) == [pipelines EXCEPT ![p] = status]

\* update_step_status_sync: writes the status of the row, whatever it was, and
\* each of start_time and end_time only when the caller passes one (TRUE here);
\* a timestamp the caller leaves out keeps what the row had. A timestamp of a
\* row is TRUE once it has been set and FALSE while it is None.
update_step_status_sync(sid, status, start_time, end_time) ==
    [steps EXCEPT ![sid] =
        [@ EXCEPT !.status = status,
                  !.start_time = IF start_time THEN TRUE ELSE @,
                  !.end_time = IF end_time THEN TRUE ELSE @]]

\* update_step_results_sync
update_step_results_sync(sid, results) == [steps EXCEPT ![sid].results = results]

\* get_pipeline_steps / get_pipeline_steps_sync: the ids of the pipeline's rows
get_pipeline_steps(p) ==
    SelectSeq([i \in 1..Len(steps) |-> i], LAMBDA i : steps[i].pipeline_id = p)

\* get_pipeline_step_output_by_name: the results of the pipeline's step of that
\* name, {} when there is no such step or it has no results.
get_pipeline_step_output_by_name(p, name) ==
    LET rows == {i \in 1..Len(steps) : steps[i].pipeline_id = p /\ steps[i].step_name = name}
    IN  IF rows = {} THEN EmptyMap ELSE steps[CHOOSE i \in rows : TRUE].results

\* ensure_steps_order over the rows of a pipeline: step ids in execution order
OrderedSteps(p) ==
    LET ids == get_pipeline_steps(p)
        r == ensure_steps_order([i \in 1..Len(ids) |-> steps[ids[i]].step_name])
    IN  [err |-> r.err,
         ordered |-> [i \in 1..Len(r.sorted_steps) |-> ids[r.sorted_steps[i]]]]

\* any(step.status == "failed" for step in ordered_steps)
AnyFailed(ordered) == \E i \in 1..Len(ordered) : steps[ordered[i]].status = "failed"

\* next((step for step in ordered_steps if step.status == "pending"), None); 0 is None
NextPending(ordered) ==
    IF \E i \in 1..Len(ordered) : steps[ordered[i]].status = "pending"
    THEN ordered[CHOOSE i \in 1..Len(ordered) :
                    /\ steps[ordered[i]].status = "pending"
                    /\ \A j \in 1..(i - 1) : steps[ordered[j]].status # "pending"]
    ELSE 0

\* The message for a step built with "input_data": {}, as execute_step builds the
\* message for the step after its own, the declared input files left out.
InputFilesOf_left_out(sid) == EmptyMap

\* next_step.input_files if next_step.input_files else {}
InputFilesOf(sid) == steps[sid].input_files


\* d[k] = v on a dict
Put(d, k, v) == [x \in (DOMAIN d) \cup {k} |-> IF x = k THEN v ELSE d[x]]

\* execute_step, lines 137-142: the loop over step_record.input_mapping.items()
RECURSIVE EnrichLoop(_, _, _, _)
EnrichLoop(keys, p, input_mapping, enriched_input) ==
    IF keys = {} THEN enriched_input
    ELSE LET key == CHOOSE k \in keys : TRUE
             dependency_output == get_pipeline_step_output_by_name(p, input_mapping[key])
         IN  EnrichLoop(keys \ {key}, p, input_mapping,
                        IF key \in DOMAIN dependency_output
                        THEN Put(enriched_input, key, dependency_output[key])
                        ELSE enriched_input)

\* The enrichment with dependency_output merged whole into the input, instead of
\* the mapped key alone.
EnrichedInput_merge_all(p, sid, input_data) ==
    LET input_mapping == steps[sid].input_mapping
        out(key) == get_pipeline_step_output_by_name(p, input_mapping[key])
        copied == UNION { DOMAIN out(key) : key \in DOMAIN input_mapping }
    IN  [x \in (DOMAIN input_data) \cup copied |->
            IF x \in copied
            THEN out(CHOOSE key \in DOMAIN input_mapping : x \in DOMAIN out(key))[x]
            ELSE input_data[x]]

\* execute_step, lines 134-144: the input handed on to the adapter
EnrichedInput(p, sid, input_data) ==
    IF DOMAIN steps[sid].input_mapping # {}
    THEN EnrichLoop(DOMAIN steps[sid].input_mapping, p, steps[sid].input_mapping, input_data)
    ELSE input_data

\* ------------------------------------------------------------ registration
\* register_pipeline: creates the pipeline (pending) and one pending row per step,
\* in the order of the request; only the first step in execution order keeps its
\* input files. A request that fails validation creates nothing.
register_pipeline(p, step_names, input_files) ==
    /\ p \notin DOMAIN pipelines
    /\ is_contiguous_subset(step_names) = "true"
    /\ pipelines' = [q \in (DOMAIN pipelines) \cup {p} |->
                        IF q = p THEN "pending" ELSE pipelines[q]]
    /\ steps' = steps \o
            [i \in 1..Len(step_names) |->
                [pipeline_id |-> p,
                 step_name |-> step_names[i],
                 status |-> "pending",
                 results |-> EmptyMap,
                 start_time |-> FALSE,
                 end_time |-> FALSE,
                 input_mapping |-> GLOBAL_INPUT_MAPPING(step_names[i]),
                 input_files |-> IF i = first_step_index(step_names)
                                 THEN input_files ELSE EmptyMap]]
    /\ lastCall' = [op |-> "register_pipeline", pipeline_id |-> p, result |-> "ok"]
    /\ UNCHANGED << queue, task, trig, enq, invoked, done >>

\* PipelineManager.register_pipeline_step / register_pipeline_step_sync: adds one
\* pending row to an existing pipeline. The name must be in STEP_EXECUTION_ORDER
\* and not yet a step of the pipeline; whether the steps stay a contiguous block
\* is not looked at. A call that is refused adds nothing.
register_pipeline_step(p, step_name) ==
    /\ p \in DOMAIN pipelines
    /\ InOrderTable(step_name)
    /\ \A i \in 1..Len(steps) :
            steps[i].pipeline_id = p => steps[i].step_name # step_name
    /\ Len(get_pipeline_steps(p)) < MaxSteps
    /\ steps' = Append(steps,
                    [pipeline_id |-> p,
                     step_name |-> step_name,
                     status |-> "pending",
                     results |-> EmptyMap,
                     start_time |-> FALSE,
                     end_time |-> FALSE,
                     input_mapping |-> GLOBAL_INPUT_MAPPING(step_name),
                     input_files |-> EmptyMap])
    /\ lastCall' = [op |-> "register_pipeline_step", pipeline_id |-> p, result |-> "ok"]
    /\ UNCHANGED << pipelines, queue, task, trig, enq, invoked, done >>

\* ------------------------------------------------------------ dispatcher
\* start_pipeline_execution with the status check of lines 80-83 left out and the
\* status written whatever it was.
start_pipeline_execution_any_status(p) ==
    /\ UNCHANGED << steps, task, trig, invoked, done >>
    /\ IF p \notin DOMAIN pipelines
       THEN /\ lastCall' = [op |-> "start_pipeline_execution", pipeline_id |-> p,
                            result |-> "not_found"]
            /\ UNCHANGED << pipelines, queue, enq >>
       ELSE /\ pipelines' = update_pipeline_status(p, "running")
            /\ IF OrderedSteps(p).err # "none"
               THEN /\ lastCall' = [op |-> "start_pipeline_execution", pipeline_id |-> p,
                                    result |-> "order_error"]
                    /\ UNCHANGED << queue, enq >>
               ELSE /\ queue' = Send(ExecutePipelineMsg(p))
                    /\ enq' = Note(enq, << "start_pipeline_execution", 0 >>)
                    /\ lastCall' = [op |-> "start_pipeline_execution", pipeline_id |-> p,
                                    result |-> "started"]

\* PipelineExecutionOrchestrator.start_pipeline_execution
start_pipeline_execution(p) ==
    /\ UNCHANGED << steps, task, trig, invoked, done >>
    /\ IF p \notin DOMAIN pipelines
       THEN /\ lastCall' = [op |-> "start_pipeline_execution", pipeline_id |-> p,
                            result |-> "not_found"]
            /\ UNCHANGED << pipelines, queue, enq >>
       ELSE IF pipelines[p] \notin {"pending", "paused", "failed"}
       THEN /\ lastCall' = [op |-> "start_pipeline_execution", pipeline_id |-> p,
                            result |-> "not_executable"]
            /\ UNCHANGED << pipelines, queue, enq >>
       ELSE IF ~PipelineUpdateAllowed(p, "running")
       THEN /\ lastCall' = [op |-> "start_pipeline_execution", pipeline_id |-> p,
                            result |-> "update_error"]
            /\ UNCHANGED << pipelines, queue, enq >>
       ELSE /\ pipelines' = update_pipeline_status(p, "running")
            /\ IF OrderedSteps(p).err # "none"
               THEN /\ lastCall' = [op |-> "start_pipeline_execution", pipeline_id |-> p,
                                    result |-> "order_error"]
                    /\ UNCHANGED << queue, enq >>
               ELSE /\ queue' = Send(ExecutePipelineMsg(p))
                    /\ enq' = Note(enq, << "start_pipeline_execution", 0 >>)
                    /\ lastCall' = [op |-> "start_pipeline_execution", pipeline_id |-> p,
                                    result |-> "started"]

\* PipelineExecutionOrchestrator.run_next_pending_step
run_next_pending_step(p) ==
    /\ trig > 0
    /\ trig' = trig - 1
    /\ UNCHANGED << steps, task, invoked, done >>
    /\ IF p \notin DOMAIN pipelines
       THEN /\ lastCall' = [op |-> "run_next_pending_step", pipeline_id |-> p,
                            result |-> "not_found"]
            /\ UNCHANGED << pipelines, queue, enq >>
       ELSE LET o == OrderedSteps(p)
                next_step == NextPending(o.ordered)
            IN  IF o.err # "none"
                THEN /\ lastCall' = [op |-> "run_next_pending_step", pipeline_id |-> p,
                                     result |-> "order_error"]
                     /\ UNCHANGED << pipelines, queue, enq >>
                ELSE IF AnyFailed(o.ordered)
                THEN /\ UNCHANGED << queue, enq >>
                     /\ IF PipelineUpdateAllowed(p, "failed")
                        THEN /\ pipelines' = update_pipeline_status(p, "failed")
                             /\ lastCall' = [op |-> "run_next_pending_step",
                                             pipeline_id |-> p, result |-> "failed"]
                        ELSE /\ UNCHANGED pipelines
                             /\ lastCall' = [op |-> "run_next_pending_step",
                                             pipeline_id |-> p, result |-> "update_error"]
                ELSE IF next_step = 0
                THEN /\ UNCHANGED << queue, enq >>
                     /\ IF PipelineUpdateAllowed(p, "completed")
                        THEN /\ pipelines' = update_pipeline_status(p, "completed")
                             /\ lastCall' = [op |-> "run_next_pending_step",
                                             pipeline_id |-> p, result |-> "completed"]
                        ELSE /\ UNCHANGED pipelines
                             /\ lastCall' = [op |-> "run_next_pending_step",
                                             pipeline_id |-> p, result |-> "update_error"]
                ELSE /\ queue' = Send(ExecuteStepMsg(p, next_step, InputFilesOf(next_step)))
                     /\ enq' = Note(enq, << "run_next_pending_step", next_step >>)
                     /\ lastCall' = [op |-> "run_next_pending_step", pipeline_id |-> p,
                                     result |-> "running"]
                     /\ UNCHANGED pipelines

\* ------------------------------------------------------------ Celery tasks
\* execute_pipeline(pipeline_id, pipeline_data): a worker takes the message and
\* runs the task to its end.
execute_pipeline(m) ==
    /\ BagIn(m, queue)
    /\ m.kind = "execute_pipeline"
    /\ UNCHANGED << steps, task, trig, lastCall, invoked >>
    /\ LET p == m.pipeline_id
           taken == queue (-) SetToBag({m})
       IN  IF ~PipelineUpdateAllowed(p, "running")
           THEN \* line 64 raises: "Invalid status transition" / not found
                /\ queue' = taken
                /\ done' = Note(done, << "execute_pipeline", 0, "error" >>)
                /\ UNCHANGED << pipelines, enq >>
           ELSE LET o == OrderedSteps(p)
                    next_step == NextPending(o.ordered)
                IN  IF o.err # "none"
                    THEN \* no steps, or the order check raises: status stays running
                         /\ pipelines' = update_pipeline_status(p, "running")
                         /\ queue' = taken
                         /\ done' = Note(done, << "execute_pipeline", 0, "error" >>)
                         /\ UNCHANGED enq
                    ELSE IF next_step = 0
                    THEN /\ pipelines' = update_pipeline_status(p, "completed")
                         /\ queue' = taken
                         /\ done' = Note(done, << "execute_pipeline", 0, "ok" >>)
                         /\ UNCHANGED enq
                    ELSE /\ pipelines' = update_pipeline_status(p, "running")
                         /\ queue' = taken (+) SetToBag({ExecuteStepMsg(p, next_step,
                                                             InputFilesOf(next_step))})
                         /\ enq' = Note(enq, << "execute_pipeline", next_step >>)
                         /\ done' = Note(done, << "execute_pipeline", 0, "ok" >>)

\* execute_step, lines 127-144: worker w, the first free slot of the pool, takes the
\* message, reads the step row and enriches input_data from the results of the
\* steps named in input_mapping.
ES_Begin(w, m) ==
    /\ task[w].pc = "idle"
    /\ \A v \in Workers : v < w => task[v].pc # "idle"
    /\ BagIn(m, queue)
    /\ m.kind = "execute_step"
    /\ queue' = queue (-) SetToBag({m})
    /\ task' = [task EXCEPT ![w] =
                   [pc |-> "enriched", msg |-> m,
                    input_data |-> EnrichedInput(m.pipeline_id, m.step_id, m.input_data)]]
    /\ UNCHANGED << pipelines, steps, trig, lastCall, enq, invoked, done >>

\* execute_step, lines 146-151: update_step_status_sync(..., "running")
ES_MarkRunning(w) ==
    /\ task[w].pc = "enriched"
    /\ steps' = update_step_status_sync(task[w].msg.step_id, "running", TRUE, FALSE)
    /\ task' = [task EXCEPT ![w].pc = "running"]
    /\ UNCHANGED << pipelines, queue, trig, lastCall, enq, invoked, done >>

\* execute_step, lines 153-172: get the orchestrator class and call the adapter.
\* outcome says whether the adapter raises and, if not, the map it returns; an
\* unknown step name makes get_step_orchestrator raise. On success the results
\* are written; on an Exception the step is written failed. A SystemExit passes
\* "except Exception" and leaves the task at once, nothing written.
ES_Execute(w, outcome) ==
    /\ task[w].pc = "running"
    /\ LET sid == task[w].msg.step_id
       IN  IF task[w].msg.step_name \notin STEP_ORCHESTRATORS \/ ~outcome.found
           THEN \* line 159: no end_time is handed over
                /\ steps' = update_step_status_sync(sid, "failed", FALSE, FALSE)
                /\ task' = [task EXCEPT ![w].pc = "step_failed"]
                /\ UNCHANGED << invoked, done >>
           ELSE IF outcome.exits
           THEN /\ task[w].msg.step_name \in SystemExitSteps
                /\ task' = [task EXCEPT ![w] = IdleTask]
                /\ invoked' = Note(invoked, [step_id |-> sid, outcome |-> "exit",
                                              input_data |-> task[w].input_data])
                /\ done' = Note(done, << "execute_step", sid, "error" >>)
                /\ UNCHANGED steps
           ELSE IF outcome.raised
           THEN /\ steps' = update_step_status_sync(sid, "failed", FALSE, TRUE)
                /\ task' = [task EXCEPT ![w].pc = "step_failed"]
                /\ invoked' = Note(invoked, [step_id |-> sid, outcome |-> "raise",
                                              input_data |-> task[w].input_data])
                /\ UNCHANGED done
           ELSE /\ steps' = update_step_results_sync(sid, outcome.output)
                /\ task' = [task EXCEPT ![w].pc = "saved"]
                /\ invoked' = Note(invoked, [step_id |-> sid, outcome |-> "ok",
                                              input_data |-> task[w].input_data])
                /\ UNCHANGED done
    /\ UNCHANGED << pipelines, queue, trig, lastCall, enq >>

\* The error path of execute_step with the update of the pipeline left out: the
\* step is failed, the pipeline keeps its status.
ES_FailPipeline_step_only(w) ==
    /\ task[w].pc = "step_failed"
    /\ done' = Note(done, << "execute_step", task[w].msg.step_id, "error" >>)
    /\ task' = [task EXCEPT ![w] = IdleTask]
    /\ UNCHANGED << pipelines, steps, queue, trig, lastCall, enq, invoked >>

\* execute_step, lines 160-161 and 171-172: update_pipeline_status_sync(..., "failed"),
\* then the error leaves the task (also when that update itself raises).
ES_FailPipeline(w) ==
    /\ task[w].pc = "step_failed"
    /\ LET p == task[w].msg.pipeline_id
       IN  IF PipelineUpdateAllowed(p, "failed")
           THEN pipelines' = update_pipeline_status(p, "failed")
           ELSE UNCHANGED pipelines
    /\ done' = Note(done, << "execute_step", task[w].msg.step_id, "error" >>)
    /\ task' = [task EXCEPT ![w] = IdleTask]
    /\ UNCHANGED << steps, queue, trig, lastCall, enq, invoked >>

\* execute_step, lines 174-179: update_step_status_sync(..., "completed")
ES_MarkCompleted(w) ==
    /\ task[w].pc = "saved"
    /\ steps' = update_step_status_sync(task[w].msg.step_id, "completed", FALSE, TRUE)
    /\ task' = [task EXCEPT ![w].pc = "completed"]
    /\ UNCHANGED << pipelines, queue, trig, lastCall, enq, invoked, done >>

\* execute_step, lines 183-210: choose what follows the completed step
ES_Next(w) ==
    /\ task[w].pc = "completed"
    /\ task' = [task EXCEPT ![w] = IdleTask]
    /\ UNCHANGED << steps, trig, lastCall, invoked >>
    /\ LET p == task[w].msg.pipeline_id
           sid == task[w].msg.step_id
           o == OrderedSteps(p)
           next_step == NextPending(o.ordered)
       IN  IF o.err # "none"
           THEN /\ done' = Note(done, << "execute_step", sid, "error" >>)
                /\ UNCHANGED << pipelines, queue, enq >>
           ELSE IF AnyFailed(o.ordered)
           THEN /\ UNCHANGED << queue, enq >>
                /\ IF PipelineUpdateAllowed(p, "failed")
                   THEN /\ pipelines' = update_pipeline_status(p, "failed")
                        /\ done' = Note(done, << "execute_step", sid, "ok" >>)
                   ELSE /\ UNCHANGED pipelines
                        /\ done' = Note(done, << "execute_step", sid, "error" >>)
           ELSE IF next_step # 0
           THEN /\ queue' = Send(ExecuteStepMsg(p, next_step, EmptyMap))
                /\ enq' = Note(enq, << "execute_step", next_step >>)
                /\ done' = Note(done, << "execute_step", sid, "ok" >>)
                /\ UNCHANGED pipelines
           ELSE \* line 204 hands update_pipeline_status_sync the keyword end_time,
                \* which it does not take: the call raises TypeError before the
                \* manager is entered, and the error leaves the task.
                /\ done' = Note(done, << "execute_step", sid, "error" >>)
                /\ UNCHANGED << pipelines, queue, enq >>

\* celery_app.py: task_acks_late=True. A message is acknowledged only when its
\* task has ended, so the broker may hand the message of a task still running to
\* a worker once more.
Redeliver(w) ==
    /\ trig > 0
    /\ task[w].pc # "idle"
    /\ trig' = trig - 1
    /\ queue' = Send(task[w].msg)
    /\ UNCHANGED << pipelines, steps, task, lastCall, enq, invoked, done >>


\* --------------------------------------------------------- retry loops
\* The loop below running range(max_retries + 1).
RangeLoopPass_off_by_one ==
    /\ rState = "looping"
    /\ IF rAttempts < rN + 1
       THEN /\ rAttempts' = rAttempts + 1
            /\ rState' = IF rAttempts + 1 <= MaxRetries /\ rFails[rAttempts + 1]
                         THEN "looping" ELSE "ok"
       ELSE /\ rState' = "raised"
            /\ UNCHANGED rAttempts
    /\ UNCHANGED << rTool, rN, rFails, rValid >>

\* The services' retry loops all have the shape
\*     for attempt in range(self.max_retries):
\*         try:    run the command; break / return
\*         except CalledProcessError: sleep(retry_wait_time)
\*     else:   raise
\* One pass of the loop: the next attempt if range() has one left, the raise
\* after the loop otherwise. rFails[k] says whether the command of attempt k
\* exits non-zero.
RangeLoopPass ==
    /\ rState = "looping"
    /\ IF rAttempts < rN
       THEN /\ rAttempts' = rAttempts + 1
            /\ rState' = IF rFails[rAttempts + 1] THEN "looping" ELSE "ok"
       ELSE /\ rState' = "raised"
            /\ UNCHANGED rAttempts
    /\ UNCHANGED << rTool, rN, rFails, rValid >>

RetryTools == { "bwa_index", "bwa_mem", "ciri2", "fasterq_dump", "pigz", "uniprot_subprocess" }

\* BWAAligner.ensure_genome_indexed
bwa_index_pass == rTool = "bwa_index" /\ RangeLoopPass
\* BWAAligner.run_bwa_mem_from_dict
bwa_mem_pass == rTool = "bwa_mem" /\ RangeLoopPass
\* CIRI2Processor.run_ciri2_from_dict
ciri2_pass == rTool = "ciri2" /\ RangeLoopPass
\* SRRService.download_and_compress_srr
fasterq_dump_pass == rTool = "fasterq_dump" /\ RangeLoopPass
\* SRRService._compress_files
pigz_pass == rTool = "pigz" /\ RangeLoopPass
\* UniProtDataPreparer._retry_subprocess
uniprot_subprocess_pass == rTool = "uniprot_subprocess" /\ RangeLoopPass

\* The check that follows a retry loop left by break: an output that fails
\* validation raises RuntimeError at once, outside the loop ("invalid").
OutputValidation ==
    /\ rState = "ok"
    /\ rState' = IF rValid THEN "validated" ELSE "invalid"
    /\ UNCHANGED << rTool, rN, rFails, rAttempts, rValid >>

\* BWAAligner.run_bwa_mem_from_dict, lines 254-257: validate_sam_output.
bwa_mem_validate == rTool = "bwa_mem" /\ OutputValidation

\* CIRI2Predictor.run_ciri2_from_dict, lines 192-195: _validate_ciri2_output.
ciri2_validate == rTool = "ciri2" /\ OutputValidation

\* Retry loops that do not raise when the attempts run out.
SilentRetryTools == { "uniprot_download", "quickgo_fetch" }

\* UniProtDataPreparer.download_uniprot_data, lines 77-95:
\*     for attempt in range(self.max_retries):
\*         try:    download; break
\*         except RequestException: sleep(retry_wait_time)
\* with no else and no raise after the loop: when the attempts run out the
\* method goes on to the decompression ("gave_up").
uniprot_download_pass ==
    /\ rTool = "uniprot_download"
    /\ rState = "looping"
    /\ IF rAttempts < rN
       THEN /\ rAttempts' = rAttempts + 1
            /\ rState' = IF rFails[rAttempts + 1] THEN "looping" ELSE "ok"
       ELSE /\ rState' = "gave_up"
            /\ UNCHANGED rAttempts
    /\ UNCHANGED << rTool, rN, rFails, rValid >>

\* GOAnnotationFetcher.fetch_annotations, lines 112-156, one batch:
\*     retries = 0
\*     while retries < max_retries:
\*         try:    request; save; break
\*         except RequestException:
\*             retries += 1; sleep
\*             if retries >= max_retries: log "Skipping batch"; break
\* Every attempt made so far has failed, so retries = rAttempts. The batch is
\* skipped and the method goes on ("gave_up").
quickgo_fetch_pass ==
    /\ rTool = "quickgo_fetch"
    /\ rState = "looping"
    /\ IF rAttempts < rN
       THEN /\ rAttempts' = rAttempts + 1
            /\ rState' = IF ~rFails[rAttempts + 1] THEN "ok"
                         ELSE IF rAttempts + 1 >= rN THEN "gave_up"
                         ELSE "looping"
       ELSE /\ rState' = "gave_up"
            /\ UNCHANGED rAttempts
    /\ UNCHANGED << rTool, rN, rFails, rValid >>

\* ------------------------------------------------- files of the SRR step
\* Two pipelines whose SRRDataManager steps run at the same time, each on one
\* BioProject with one single-end accession still to download. Every command
\* succeeds.
FilePipelines == {1, 2}
BioProjects == { "PRJ_A", "PRJ_B" }

\* SRROrchestrator._execute_core line 127: /tmp/{bioproject_id}_to_download.txt
ListFile(b) == << "tmp_list", b >>
\* SRRService.__init__ lines 43-45: {sra_directory}/{project_code}/temp, holding
\* the fastq file fasterq-dump writes
TempFastq(b) == << "temp_fastq", b >>
\* SRRService.__init__ line 49: {sra_directory}/{project_code}/COMPACT, holding
\* the compressed file
CompactGz(b) == << "compact_gz", b >>

Touch(q, accesses) == fsTouched \cup { << q, a[1], a[2] >> : a \in accesses }

\* _execute_core lines 126-129: write the list of accessions to download.
SRR_WriteList(q) ==
    /\ fsPc[q] = "start"
    /\ fsFiles' = fsFiles \cup { ListFile(fsProj[q]) }
    /\ fsTouched' = Touch(q, { << ListFile(fsProj[q]), "w" >> })
    /\ fsPc' = [fsPc EXCEPT ![q] = "listed"]
    /\ UNCHANGED fsProj

\* download_and_compress_srr lines 76-107: the list file must exist
\* (FileNotFoundError otherwise); _files_already_compressed looks into COMPACT
\* and is false for a single-end accession (it wants all three file names);
\* fasterq-dump writes into the temp directory.
SRR_Download(q) ==
    /\ fsPc[q] = "listed"
    /\ LET b == fsProj[q]
       IN  IF ListFile(b) \notin fsFiles
           THEN /\ fsPc' = [fsPc EXCEPT ![q] = "raised"]
                /\ fsTouched' = Touch(q, { << ListFile(b), "r" >> })
                /\ UNCHANGED fsFiles
           ELSE /\ fsPc' = [fsPc EXCEPT ![q] = "downloaded"]
                /\ fsFiles' = fsFiles \cup { TempFastq(b) }
                /\ fsTouched' = Touch(q, { << ListFile(b), "r" >>, << CompactGz(b), "r" >>,
                                           << TempFastq(b), "w" >> })
    /\ UNCHANGED fsProj

\* _compress_files lines 150-177: a fastq file found in the temp directory is
\* compressed into COMPACT and removed; one that is not there is passed over.
SRR_Compress(q) ==
    /\ fsPc[q] = "downloaded"
    /\ LET b == fsProj[q]
       IN  IF TempFastq(b) \in fsFiles
           THEN /\ fsFiles' = (fsFiles \cup { CompactGz(b) }) \ { TempFastq(b) }
                /\ fsTouched' = Touch(q, { << TempFastq(b), "w" >>, << CompactGz(b), "w" >> })
           ELSE /\ fsTouched' = Touch(q, { << TempFastq(b), "r" >> })
                /\ UNCHANGED fsFiles
    /\ fsPc' = [fsPc EXCEPT ![q] = "compressed"]
    /\ UNCHANGED fsProj

\* download_and_compress_srr lines 112-114: shutil.rmtree(self.temp_directory)
SRR_RemoveTemp(q) ==
    /\ fsPc[q] = "compressed"
    /\ fsFiles' = fsFiles \ { TempFastq(fsProj[q]) }
    /\ fsTouched' = Touch(q, { << TempFastq(fsProj[q]), "w" >> })
    /\ fsPc' = [fsPc EXCEPT ![q] = "cleaned"]
    /\ UNCHANGED fsProj

\* _execute_core lines 131-163: the error of the service is raised on, the list
\* file is removed if it exists, and without an error the compressed file is
\* looked for: found, its path is registered and returned; not found, a warning
\* is logged and the step returns without it.
SRR_Finish(q) ==
    /\ fsPc[q] \in {"cleaned", "raised"}
    /\ LET b == fsProj[q]
       IN  /\ fsFiles' = fsFiles \ { ListFile(b) }
           /\ IF fsPc[q] = "raised"
              THEN /\ fsPc' = [fsPc EXCEPT ![q] = "step_raised"]
                   /\ fsTouched' = Touch(q, { << ListFile(b), "w" >> })
              ELSE /\ fsPc' = [fsPc EXCEPT ![q] =
                                IF CompactGz(b) \in fsFiles THEN "returned_path"
                                ELSE "returned_no_path"]
                   /\ fsTouched' = Touch(q, { << ListFile(b), "w" >>, << CompactGz(b), "r" >> })
    /\ UNCHANGED fsProj

FilesIdle ==
    /\ fsProj = [q \in FilePipelines |-> "PRJ_A"]
    /\ fsPc = [q \in FilePipelines |-> "idle"]
    /\ fsFiles = {}
    /\ fsTouched = {}

\* ------------------------------------------------------- skip checks
\* One unit of work of an adapter: the skip check, the external tool, the check
\* of what it wrote. The tool's command succeeds; what it leaves in the output
\* file is an input.
SkipTools == { "ciri2", "blastp", "diamond", "srr" }

\* An output file: not there, there with size 0, there with content that does
\* not parse, there with content that parses.
FileStates == { "absent", "empty", "malformed", "valid" }

\* The compressed files of an accession: {acc}_1.fastq.gz, {acc}_2.fastq.gz,
\* {acc}.fastq.gz
SrrNames == { "_1", "_2", "single" }

\* os.path.exists
exists(f) == f # "absent"

\* UniProtDataPreparer.is_file_valid: exists and size > 0
is_file_valid(f) == f \in { "malformed", "valid" }

\* CIRI2Processor._validate_ciri2_output: exists and size > 0
validate_ciri2_output(f) == f \in { "malformed", "valid" }

\* UniProtDataPreparer.validate_blastp_xml: parses as XML with records
validate_blastp_xml(f) == f = "valid"

\* UniProtDataPreparer.validate_diamond_tsv: reads as TSV with rows and columns
validate_diamond_tsv(f) == f = "valid"

\* SRRService._files_already_compressed: all() over the three names
files_already_compressed(present) == \A n \in SrrNames : n \in present

\* SRROrchestrator._execute_core lines 150-154: the check of the step's output
srr_final_path_found(present) ==
    "single" \in present \/ ("_1" \in present /\ "_2" \in present)

\* run_ciri2_from_dict lines 164-190
ciri2_unit ==
    /\ kTool = "ciri2" /\ kPc = "start"
    /\ IF ~kForce /\ validate_ciri2_output(kFile)
       THEN kPc' = "skipped" /\ UNCHANGED << kFile, kRan >>
       ELSE kPc' = "ran" /\ kRan' = TRUE /\ kFile' \in FileStates
    /\ UNCHANGED << kTool, kForce, kSrrFiles >>

\* run_ciri2_from_dict lines 192-195
ciri2_output_check ==
    /\ kTool = "ciri2" /\ kPc = "ran"
    /\ kPc' = IF validate_ciri2_output(kFile) THEN "accepted" ELSE "rejected"
    /\ UNCHANGED << kTool, kForce, kFile, kSrrFiles, kRan >>

\* UniProtDataPreparer.run lines 237-238 (240-241 for DIAMOND) entering
\* run_blastp lines 169-173 (run_diamond 194-198): run() passes over the tool
\* when is_file_valid and not force_run; run_blastp itself returns without
\* calling the tool when the file exists and not force_run.
UniProtUnit ==
    /\ kPc = "start"
    /\ IF ~is_file_valid(kFile) \/ kForce
       THEN IF exists(kFile) /\ ~kForce
            THEN kPc' = "not_run" /\ UNCHANGED << kFile, kRan >>
            ELSE kPc' = "ran" /\ kRan' = TRUE /\ kFile' \in FileStates
       ELSE kPc' = "skipped" /\ UNCHANGED << kFile, kRan >>
    /\ UNCHANGED << kTool, kForce, kSrrFiles >>

blastp_unit == kTool = "blastp" /\ UniProtUnit

diamond_unit == kTool = "diamond" /\ UniProtUnit

\* UniProtDataPreparer.run lines 239-240: validate_blastp_xml, SystemExit if false
blastp_output_check ==
    /\ kTool = "blastp" /\ kPc \in { "ran", "not_run" }
    /\ kPc' = IF validate_blastp_xml(kFile) THEN "accepted" ELSE "rejected"
    /\ UNCHANGED << kTool, kForce, kFile, kSrrFiles, kRan >>

\* UniProtDataPreparer.run lines 246-247: validate_diamond_tsv, SystemExit if false
diamond_output_check ==
    /\ kTool = "diamond" /\ kPc \in { "ran", "not_run" }
    /\ kPc' = IF validate_diamond_tsv(kFile) THEN "accepted" ELSE "rejected"
    /\ UNCHANGED << kTool, kForce, kFile, kSrrFiles, kRan >>

\* download_and_compress_srr lines 90-110: the accession is in the list to
\* download (also under force_redownload); the service passes over it when all
\* three names exist, whatever the flag, and otherwise runs fasterq-dump and
\* pigz, which leave the single file, the pair, or nothing.
srr_unit ==
    /\ kTool = "srr" /\ kPc = "start"
    /\ IF files_already_compressed(kSrrFiles)
       THEN kPc' = "skipped" /\ UNCHANGED << kSrrFiles, kRan >>
       ELSE /\ kPc' = "ran" /\ kRan' = TRUE
            /\ \E written \in { {}, {"single"}, {"_1", "_2"} } :
                    kSrrFiles' = kSrrFiles \cup written
    /\ UNCHANGED << kTool, kForce, kFile >>

\* _execute_core lines 144-163: look for the files of the accession
srr_output_check ==
    /\ kTool = "srr" /\ kPc \in { "ran", "skipped" }
    /\ kPc' = IF srr_final_path_found(kSrrFiles) THEN "accepted" ELSE "rejected"
    /\ UNCHANGED << kTool, kForce, kFile, kSrrFiles, kRan >>

\* ------------------------------------------- update of a pipeline's status
\* update_pipeline_status (async) and update_pipeline_status_sync on their own:
\* the table of pipelines as the two functions see it.
RowIds == {1, 2}
RowStatuses == {"pending", "running", "completed", "failed"}
\* The status argument is a str: any status name can be asked for.
RequestStatuses == RowStatuses \cup {"paused"}
UpdateFunctions == {"update_pipeline_status", "update_pipeline_status_sync"}

\* session.get(Pipeline, pipeline_id) gives None
NoRow == [status |-> "none", end_time |-> FALSE]
NoCall == [fn |-> "none", pipeline_id |-> 0, status |-> "none", result |-> "none"]

\* The body the two functions share: KeyError when there is no row, ValueError
\* when status is not in valid_transitions of the row's status, both wrapped in
\* RuntimeError with nothing written; otherwise status is written, and end_time
\* when status is completed or failed.
UpdatePipelineStatus(fn, p, status) ==
    LET pipeline == uRows[p]
    IN  IF pipeline = NoRow \/ status \notin valid_transitions(pipeline.status)
        THEN /\ uCall' = [fn |-> fn, pipeline_id |-> p, status |-> status,
                          result |-> "RuntimeError"]
             /\ UNCHANGED uRows
        ELSE /\ uRows' = [uRows EXCEPT ![p] =
                            [status |-> status,
                             end_time |-> IF status \in {"completed", "failed"}
                                          THEN TRUE ELSE pipeline.end_time]]
             /\ uCall' = [fn |-> fn, pipeline_id |-> p, status |-> status,
                          result |-> "ok"]

update_pipeline_status_async(p, status) ==
    UpdatePipelineStatus("update_pipeline_status", p, status)

update_pipeline_status_sync(p, status) ==
    UpdatePipelineStatus("update_pipeline_status_sync", p, status)

StatusIdle ==
    /\ uRows = [p \in RowIds |-> NoRow]
    /\ uCall = NoCall

SkipIdle ==
    /\ kTool = "none" /\ kForce = FALSE /\ kFile = "absent" /\ kSrrFiles = {}
    /\ kRan = FALSE /\ kPc = "idle"

\* ------------------------------------------------------- specifications
EngineIdle ==
    /\ pipelines = EmptyMap
    /\ steps = << >>
    /\ queue = EmptyBag
    /\ task = [w \in Workers |-> IdleTask]
    /\ lastCall = [op |-> "none", pipeline_id |-> 0, result |-> "none"]
    /\ enq = EmptyBag
    /\ invoked = EmptyBag
    /\ done = EmptyBag

NotCalled == [err |-> "not_called", sorted_steps |-> << >>]

OrderIdle ==
    /\ ordIn = << >>
    /\ ordOut = NotCalled
    /\ ordOut2 = NotCalled
    /\ ordOutOfOut = NotCalled
    /\ ordTable = STEP_EXECUTION_ORDER
    /\ ordContig = "not_called"

RetryIdle ==
    /\ rTool = "none"
    /\ rN = 0
    /\ rFails = [k \in 1..MaxRetries |-> FALSE]
    /\ rAttempts = 0
    /\ rValid = TRUE
    /\ rState = "idle"

\* Lists of step names of length lo..hi
NameLists(lo, hi) == UNION { [1..n -> StepNames] : n \in lo..hi }

\* The engine under any interleaving: the store starts empty, a pipeline is
\* registered, the outside world calls the orchestrator (start_pipeline_execution
\* at any time, run_next_pending_step within MaxEvents), workers run the tasks,
\* the broker may redeliver.
Init == EngineIdle /\ trig = MaxEvents /\ OrderIdle /\ RetryIdle /\ FilesIdle /\ SkipIdle /\ StatusIdle

Register ==
    /\ \E p \in PipelineIds, names \in NameLists(1, MaxSteps), files \in InputFileChoices :
            register_pipeline(p, names, files)
    /\ UNCHANGED << orderVars, retryVars, fileVars, skipVars, statusVars >>

RegisterAny ==
    /\ \E p \in PipelineIds, names \in NameLists(1, MaxStepsAny), files \in InputFileChoices :
            register_pipeline(p, names, files)
    /\ UNCHANGED << orderVars, retryVars, fileVars, skipVars, statusVars >>

Start ==
    /\ \E p \in PipelineIds : start_pipeline_execution(p)
    /\ UNCHANGED << orderVars, retryVars, fileVars, skipVars, statusVars >>

RunNext ==
    /\ \E p \in PipelineIds : run_next_pending_step(p)
    /\ UNCHANGED << orderVars, retryVars, fileVars, skipVars, statusVars >>

ExecutePipeline ==
    /\ \E m \in BagToSet(queue) : execute_pipeline(m)
    /\ UNCHANGED << orderVars, retryVars, fileVars, skipVars, statusVars >>

StepBegin ==
    /\ \E w \in Workers, m \in BagToSet(queue) : ES_Begin(w, m)
    /\ UNCHANGED << orderVars, retryVars, fileVars, skipVars, statusVars >>

StepMarkRunning ==
    /\ \E w \in Workers : ES_MarkRunning(w)
    /\ UNCHANGED << orderVars, retryVars, fileVars, skipVars, statusVars >>

StepExecute ==
    /\ \E w \in Workers, outcome \in AdapterOutcomes : ES_Execute(w, outcome)
    /\ UNCHANGED << orderVars, retryVars, fileVars, skipVars, statusVars >>

StepFailPipeline ==
    /\ \E w \in Workers : ES_FailPipeline(w)
    /\ UNCHANGED << orderVars, retryVars, fileVars, skipVars, statusVars >>

StepMarkCompleted ==
    /\ \E w \in Workers : ES_MarkCompleted(w)
    /\ UNCHANGED << orderVars, retryVars, fileVars, skipVars, statusVars >>

StepNext ==
    /\ \E w \in Workers : ES_Next(w)
    /\ UNCHANGED << orderVars, retryVars, fileVars, skipVars, statusVars >>

BrokerRedeliver ==
    /\ \E w \in Workers : Redeliver(w)
    /\ UNCHANGED << orderVars, retryVars, fileVars, skipVars, statusVars >>

Dispatch ==
    \/ Start
    \/ RunNext
    \/ ExecutePipeline
    \/ StepBegin
    \/ StepMarkRunning
    \/ StepExecute
    \/ StepFailPipeline
    \/ StepMarkCompleted
    \/ StepNext

Next == RegisterAny \/ Dispatch \/ BrokerRedeliver

NextOnce == Register \/ Dispatch

Spec == Init /\ [][Next]_vars

\* The engine driven once: one call of run_next_pending_step at most, every
\* message delivered exactly once.
InitOnce == EngineIdle /\ trig = 1 /\ OrderIdle /\ RetryIdle /\ FilesIdle /\ SkipIdle /\ StatusIdle

SpecOnce == InitOnce /\ [][NextOnce]_vars

\* The engine driven once over a store that is also written through the manager:
\* steps may be added to a registered pipeline one by one.
AddStep ==
    /\ \E p \in PipelineIds, name \in StepNames : register_pipeline_step(p, name)
    /\ UNCHANGED << orderVars, retryVars, fileVars, skipVars, statusVars >>

NextStore == RegisterAny \/ AddStep \/ Dispatch

SpecStore == InitOnce /\ [][NextStore]_vars

\* The external pause request of the specification ("running -> paused (external
\* request)"). The source has no operation that writes "paused"; the request is
\* taken from the specification as a write of the status made from outside.
external_pause(p) ==
    /\ p \in DOMAIN pipelines
    /\ pipelines[p] = "running"
    /\ pipelines' = [pipelines EXCEPT ![p] = "paused"]
    /\ UNCHANGED << steps, queue, task, trig, lastCall, enq, invoked, done >>

PauseRequest ==
    /\ \E p \in PipelineIds : external_pause(p)
    /\ UNCHANGED << orderVars, retryVars, fileVars, skipVars, statusVars >>

\* The engine driven once, with pause requests from outside.
NextPause == Register \/ Dispatch \/ PauseRequest

SpecPause == InitOnce /\ [][NextPause]_vars

\* ensure_steps_order on its own, over every list of names up to MaxLen.
InitOrder ==
    /\ EngineIdle /\ trig = 0 /\ RetryIdle /\ FilesIdle /\ SkipIdle /\ StatusIdle
    /\ ordIn \in NameLists(0, MaxLen)
    /\ ordOut = NotCalled
    /\ ordOut2 = NotCalled
    /\ ordOutOfOut = NotCalled
    /\ ordTable = STEP_EXECUTION_ORDER
    /\ ordContig = "not_called"

\* The list a call returned, as the names of its steps.
ReturnedNames(names, out) == [i \in 1..Len(out.sorted_steps) |-> names[out.sorted_steps[i]]]

\* A call of ensure_steps_order that sorted the list handed in in place
\* (steps.sort(...)) before returning it.
CallEnsureStepsOrder_in_place ==
    /\ ordOut.err = "not_called"
    /\ ordOut' = ensure_steps_order(ordIn)
    /\ ordIn' = IF ordOut'.err = "none" THEN ReturnedNames(ordIn, ordOut') ELSE ordIn
    /\ UNCHANGED << ordOut2, ordOutOfOut, ordTable, ordContig, engineVars, retryVars, fileVars, skipVars, statusVars >>

\* One call. The function builds new lists (a comprehension, sorted(...)) and
\* only reads STEP_EXECUTION_ORDER (.index): the list handed in and the table
\* are left as they were.
CallEnsureStepsOrder ==
    /\ ordOut.err = "not_called"
    /\ ordOut' = ensure_steps_order(ordIn)
    /\ UNCHANGED << ordIn, ordOut2, ordOutOfOut, ordTable, ordContig, engineVars, retryVars, fileVars, skipVars, statusVars >>

\* A second call on the same list.
CallEnsureStepsOrderAgain ==
    /\ ordOut.err # "not_called"
    /\ ordOut2.err = "not_called"
    /\ ordOut2' = ensure_steps_order(ordIn)
    /\ UNCHANGED << ordIn, ordOut, ordOutOfOut, ordTable, ordContig, engineVars, retryVars, fileVars, skipVars, statusVars >>

\* A call on the list the first call returned.
CallEnsureStepsOrderOnResult ==
    /\ ordOut.err = "none"
    /\ ordOutOfOut.err = "not_called"
    /\ ordOutOfOut' = ensure_steps_order(ReturnedNames(ordIn, ordOut))
    /\ UNCHANGED << ordIn, ordOut, ordOut2, ordTable, ordContig, engineVars, retryVars, fileVars, skipVars, statusVars >>

\* Registration's check on the names of the same list.
CallIsContiguousSubset ==
    /\ ordContig = "not_called"
    /\ ordContig' = is_contiguous_subset(ordIn)
    /\ UNCHANGED << ordIn, ordOut, ordOut2, ordOutOfOut, ordTable, engineVars, retryVars, fileVars, skipVars, statusVars >>

NextOrder ==
    \/ CallEnsureStepsOrder
    \/ CallEnsureStepsOrderAgain
    \/ CallEnsureStepsOrderOnResult
    \/ CallIsContiguousSubset

SpecOrder == InitOrder /\ [][NextOrder]_vars

\* The SRRDataManager steps of two pipelines over one file system, in any
\* interleaving, for every choice of BioProject by each.
InitFiles ==
    /\ EngineIdle /\ trig = 0 /\ OrderIdle /\ RetryIdle /\ SkipIdle /\ StatusIdle
    /\ fsProj \in [FilePipelines -> BioProjects]
    /\ fsPc = [q \in FilePipelines |-> "start"]
    /\ fsFiles = {}
    /\ fsTouched = {}

NextFiles ==
    \/ \E q \in FilePipelines : SRR_WriteList(q) /\ UNCHANGED << engineVars, orderVars, retryVars, skipVars, statusVars >>
    \/ \E q \in FilePipelines : SRR_Download(q) /\ UNCHANGED << engineVars, orderVars, retryVars, skipVars, statusVars >>
    \/ \E q \in FilePipelines : SRR_Compress(q) /\ UNCHANGED << engineVars, orderVars, retryVars, skipVars, statusVars >>
    \/ \E q \in FilePipelines : SRR_RemoveTemp(q) /\ UNCHANGED << engineVars, orderVars, retryVars, skipVars, statusVars >>
    \/ \E q \in FilePipelines : SRR_Finish(q) /\ UNCHANGED << engineVars, orderVars, retryVars, skipVars, statusVars >>

SpecFiles == InitFiles /\ [][NextFiles]_vars

\* One unit of work of one adapter, over every state of its output before the
\* run and either value of the flag.
InitSkip ==
    /\ EngineIdle /\ trig = 0 /\ OrderIdle /\ RetryIdle /\ FilesIdle /\ StatusIdle
    /\ kTool \in SkipTools
    /\ kForce \in BOOLEAN
    /\ kFile \in (IF kTool = "srr" THEN { "absent" } ELSE FileStates)
    /\ kSrrFiles \in (IF kTool = "srr" THEN SUBSET SrrNames ELSE { {} })
    /\ kRan = FALSE
    /\ kPc = "start"

NextSkip ==
    \/ ciri2_unit /\ UNCHANGED << engineVars, orderVars, retryVars, fileVars, statusVars >>
    \/ ciri2_output_check /\ UNCHANGED << engineVars, orderVars, retryVars, fileVars, statusVars >>
    \/ blastp_unit /\ UNCHANGED << engineVars, orderVars, retryVars, fileVars, statusVars >>
    \/ blastp_output_check /\ UNCHANGED << engineVars, orderVars, retryVars, fileVars, statusVars >>
    \/ diamond_unit /\ UNCHANGED << engineVars, orderVars, retryVars, fileVars, statusVars >>
    \/ diamond_output_check /\ UNCHANGED << engineVars, orderVars, retryVars, fileVars, statusVars >>
    \/ srr_unit /\ UNCHANGED << engineVars, orderVars, retryVars, fileVars, statusVars >>
    \/ srr_output_check /\ UNCHANGED << engineVars, orderVars, retryVars, fileVars, statusVars >>

SpecSkip == InitSkip /\ [][NextSkip]_vars

\* The two update functions called in any order on a table of two ids, each id
\* with no row or with a row as the functions leave one: pending or running
\* with no end_time, completed or failed with one.
InitStatus ==
    /\ EngineIdle /\ trig = 0 /\ OrderIdle /\ RetryIdle /\ FilesIdle /\ SkipIdle
    /\ uRows \in [RowIds ->
                    {NoRow} \cup
                    { [status |-> st, end_time |-> st \in {"completed", "failed"}] :
                          st \in RowStatuses }]
    /\ uCall = NoCall

NextStatus ==
    \/ \E p \in RowIds, status \in RequestStatuses :
            update_pipeline_status_async(p, status)
                /\ UNCHANGED << engineVars, orderVars, retryVars, fileVars, skipVars >>
    \/ \E p \in RowIds, status \in RequestStatuses :
            update_pipeline_status_sync(p, status)
                /\ UNCHANGED << engineVars, orderVars, retryVars, fileVars, skipVars >>

SpecStatus == InitStatus /\ [][NextStatus]_vars

\* One retry loop of one service, over every max_retries up to MaxRetries and
\* every pattern of failing attempts.
InitRetry ==
    /\ EngineIdle /\ trig = 0 /\ OrderIdle /\ FilesIdle /\ SkipIdle /\ StatusIdle
    /\ rTool \in RetryTools \cup SilentRetryTools
    /\ rN \in 0..MaxRetries
    /\ rFails \in [1..MaxRetries -> BOOLEAN]
    /\ rAttempts = 0
    /\ rValid \in BOOLEAN
    /\ rState = "looping"

NextRetry ==
    \/ bwa_index_pass /\ UNCHANGED << engineVars, orderVars, fileVars, skipVars, statusVars >>
    \/ bwa_mem_pass /\ UNCHANGED << engineVars, orderVars, fileVars, skipVars, statusVars >>
    \/ ciri2_pass /\ UNCHANGED << engineVars, orderVars, fileVars, skipVars, statusVars >>
    \/ fasterq_dump_pass /\ UNCHANGED << engineVars, orderVars, fileVars, skipVars, statusVars >>
    \/ pigz_pass /\ UNCHANGED << engineVars, orderVars, fileVars, skipVars, statusVars >>
    \/ uniprot_subprocess_pass /\ UNCHANGED << engineVars, orderVars, fileVars, skipVars, statusVars >>
    \/ bwa_mem_validate /\ UNCHANGED << engineVars, orderVars, fileVars, skipVars, statusVars >>
    \/ ciri2_validate /\ UNCHANGED << engineVars, orderVars, fileVars, skipVars, statusVars >>
    \/ uniprot_download_pass /\ UNCHANGED << engineVars, orderVars, fileVars, skipVars, statusVars >>
    \/ quickgo_fetch_pass /\ UNCHANGED << engineVars, orderVars, fileVars, skipVars, statusVars >>

SpecRetry == InitRetry /\ [][NextRetry]_vars


\* ================================================================ claims
\* No message waits and no task runs.
Quiescent == queue = EmptyBag /\ \A w \in Workers : task[w].pc = "idle"

\* The adapter of step sid has been called and ended that way.
AdapterEnded(sid, how) ==
    \E e \in BagToSet(invoked) : e.step_id = sid /\ e.outcome = how

\* Number of execute_step messages sent for step sid, by whatever sender.
EnqueuedFor(sid) ==
    CopiesIn(<< "run_next_pending_step", sid >>, enq)
        + CopiesIn(<< "execute_pipeline", sid >>, enq)
        + CopiesIn(<< "execute_step", sid >>, enq)

RunningSteps(p) ==
    { i \in 1..Len(steps) : steps[i].pipeline_id = p /\ steps[i].status = "running" }

\* C1 - single active step: in every state at most one step of a pipeline has
\* status running.
SingleActiveStep == \A p \in DOMAIN pipelines : Cardinality(RunningSteps(p)) <= 1

CompletionAfterStart ==
    \A p \in DOMAIN pipelines :
        LET ids == get_pipeline_steps(p)
        IN  (/\ Len(ids) = 2
             /\ CopiesIn(<< "start_pipeline_execution", 0 >>, enq) > 0
             /\ \A i \in 1..Len(ids) : ~AdapterEnded(ids[i], "raise")
             /\ Quiescent)
            =>  /\ pipelines[p] = "completed"
                /\ \A i \in 1..Len(ids) : steps[ids[i]].status = "completed"

\* C4 - step terminal states are absorbing: every change of a step's status is
\* pending -> running, running -> completed or running -> failed.
StepStatusEdges ==
    { << "pending", "running" >>, << "running", "completed" >>, << "running", "failed" >> }

StepTerminalAbsorbing ==
    [][\A i \in 1..Len(steps) :
           steps'[i].status # steps[i].status
               => << steps[i].status, steps'[i].status >> \in StepStatusEdges]_vars

\* C5 - contiguity: for a non-empty list, ensure_steps_order succeeds if and only
\* if every name is in STEP_EXECUTION_ORDER and the canonical indices are the
\* integers from the least to the greatest with no duplicate; when it succeeds
\* it returns the same steps in ascending order of canonical index.
ContiguousNames(names) ==
    /\ \A i \in 1..Len(names) : InOrderTable(names[i])
    /\ \A i, j \in 1..Len(names) : i # j => OrderIndex(names[i]) # OrderIndex(names[j])
    /\ \A i, j \in 1..Len(names) :
            \A x \in OrderIndex(names[i])..OrderIndex(names[j]) :
                \E k \in 1..Len(names) : OrderIndex(names[k]) = x

EnsureStepsOrderContiguity ==
    (ordOut.err # "not_called" /\ Len(ordIn) > 0)
        =>  /\ (ordOut.err = "none") <=> ContiguousNames(ordIn)
            /\ (ordOut.err = "none")
                    =>  /\ Len(ordOut.sorted_steps) = Len(ordIn)
                        /\ { ordOut.sorted_steps[i] : i \in 1..Len(ordIn) } = 1..Len(ordIn)
                        /\ \A i, j \in 1..Len(ordIn) :
                                i < j => OrderIndex(ordIn[ordOut.sorted_steps[i]])
                                            < OrderIndex(ordIn[ordOut.sorted_steps[j]])

EnsureStepsOrderWitness ==
    /\ Len(ordIn) >= 3
    /\ ordOut.err = "none"
    /\ ordOut.sorted_steps # [i \in 1..Len(ordIn) |-> i]

\* C6 - retry bound: a retry loop with max_retries = N >= 1 that has ended made
\* exactly N attempts and raised if the command failed on each of the N attempts,
\* and otherwise made exactly k attempts and returned, k being the first attempt
\* on which the command succeeds; no loop ever makes more than N attempts.
RetryBound ==
    rTool \in RetryTools
        =>  /\ rAttempts <= rN
            /\ (rN >= 1 /\ rState \in {"ok", "raised"})
                    =>  IF \A k \in 1..rN : rFails[k]
                        THEN rAttempts = rN /\ rState = "raised"
                        ELSE /\ rState = "ok"
                             /\ ~rFails[rAttempts]
                             /\ \A j \in 1..(rAttempts - 1) : rFails[j]

RetryBoundWitness ==
    /\ rTool \in RetryTools
    /\ rN >= 2
    /\ rState = "raised"
    /\ rAttempts = rN

\* C7 - dependency resolution: when execute_step takes a message with input_data
\* D for a step with input mapping M, the input it goes on with is D plus, for
\* each key k of M whose upstream step has results holding k, the entry
\* k = results[k] as stored at that moment, and no other key; that input is what
\* the adapter is called with.
UpstreamHas(p, name, k) ==
    \E i \in 1..Len(steps) :
        /\ steps[i].pipeline_id = p
        /\ steps[i].step_name = name
        /\ k \in DOMAIN steps[i].results

UpstreamValue(p, name, k) ==
    steps[CHOOSE i \in 1..Len(steps) :
            /\ steps[i].pipeline_id = p
            /\ steps[i].step_name = name
            /\ k \in DOMAIN steps[i].results].results[k]

ExpectedInput(p, sid, D) ==
    LET M == steps[sid].input_mapping
        copied == { k \in DOMAIN M : UpstreamHas(p, M[k], k) }
    IN  [x \in (DOMAIN D) \cup copied |->
            IF x \in copied THEN UpstreamValue(p, M[x], x) ELSE D[x]]

DependencyResolution ==
    [][\A w \in Workers :
        /\ (task[w].pc = "idle" /\ task'[w].pc = "enriched")
                => task'[w].input_data =
                        ExpectedInput(task'[w].msg.pipeline_id, task'[w].msg.step_id,
                                      task'[w].msg.input_data)
        /\ (task[w].pc = "enriched" /\ task'[w].pc = "running")
                => task'[w].input_data = task[w].input_data
        /\ (task[w].pc = "running" /\ invoked' # invoked)
                => \E how \in {"ok", "raise", "exit"} :
                        invoked' = Note(invoked, [step_id |-> task[w].msg.step_id,
                                                  outcome |-> how,
                                                  input_data |-> task[w].input_data])]_vars

DependencyResolutionWitness ==
    \E w \in Workers :
        /\ task[w].pc = "running"
        /\ LET p == task[w].msg.pipeline_id
               M == steps[task[w].msg.step_id].input_mapping
           IN  \E k \in DOMAIN M :
                    LET r == get_pipeline_step_output_by_name(p, M[k])
                    IN  /\ k \in DOMAIN r
                        /\ DOMAIN r # {k}
                        /\ k \notin DOMAIN task[w].msg.input_data
                        /\ DOMAIN task[w].input_data = (DOMAIN task[w].msg.input_data) \cup {k}
                        /\ task[w].input_data[k] = r[k]

\* C8 - bootstrap dispatch: processing the execute_pipeline message that
\* start_pipeline_execution sent for a pipeline with a pending step sends exactly
\* one execute_step message, for the first pending step in execution order.
BootstrapDispatch ==
    [][\A p \in DOMAIN pipelines :
        LET m == ExecutePipelineMsg(p)
            next_step == NextPending(OrderedSteps(p).ordered)
        IN  (/\ CopiesIn(m, queue') < CopiesIn(m, queue)
             /\ OrderedSteps(p).err = "none"
             /\ next_step # 0)
            =>  /\ enq' = Note(enq, << "execute_pipeline", next_step >>)
                /\ queue' = (queue (-) SetToBag({m}))
                                (+) SetToBag({ExecuteStepMsg(p, next_step,
                                                             InputFilesOf(next_step))})]_vars

\* C9 - start guard: start_pipeline_execution on an id that does not exist, or on
\* a pipeline that is running or completed, ends with its not-found or
\* not-executable error, sends no message and leaves the pipeline and its steps
\* as they were.
StartGuard ==
    [][\A p \in PipelineIds :
        (/\ start_pipeline_execution(p)
         /\ (p \notin DOMAIN pipelines \/ pipelines[p] \in {"running", "completed"}))
        =>  /\ lastCall'.result \in {"not_found", "not_executable"}
            /\ queue' = queue
            /\ enq' = enq
            /\ pipelines' = pipelines
            /\ steps' = steps]_vars

StartGuardWitness ==
    \E p \in DOMAIN pipelines :
        /\ pipelines[p] = "completed"
        /\ lastCall = [op |-> "start_pipeline_execution", pipeline_id |-> p,
                       result |-> "not_executable"]
        /\ queue = EmptyBag

\* C10 - start from an executable state: start_pipeline_execution on a pipeline
\* that is pending, paused or failed and whose steps are validly ordered sets the
\* pipeline running and sends exactly one execute_pipeline message.
StartFromExecutableState ==
    [][\A p \in DOMAIN pipelines :
        (/\ start_pipeline_execution(p)
         /\ pipelines[p] \in {"pending", "paused", "failed"}
         /\ OrderedSteps(p).err = "none")
        =>  /\ pipelines'[p] = "running"
            /\ queue' = Send(ExecutePipelineMsg(p))]_vars

\* Step j comes before step i in the execution order of their pipeline.
Precedes(j, i) ==
    /\ steps[j].pipeline_id = steps[i].pipeline_id
    /\ InOrderTable(steps[j].step_name)
    /\ InOrderTable(steps[i].step_name)
    /\ OrderIndex(steps[j].step_name) < OrderIndex(steps[i].step_name)

\* The dispatcher advancing pipeline p: run_next_pending_step, or execute_step
\* choosing what follows the step it completed.
Advances(p) ==
    \/ run_next_pending_step(p)
    \/ \E w \in Workers : task[w].msg.pipeline_id = p /\ ES_Next(w)

\* An advance of a pipeline that has a failed step leaves the pipeline failed
\* and sends nothing.
AdvanceWithFailedStops ==
    \A p \in DOMAIN pipelines :
        (Advances(p) /\ OrderedSteps(p).err = "none" /\ AnyFailed(OrderedSteps(p).ordered))
            => pipelines'[p] = "failed" /\ queue' = queue /\ enq' = enq

\* C11 - no resume past a failed step: an advance of a pipeline that has a failed
\* step leaves the pipeline failed and sends no execute_step message, and no step
\* is marked running while a step before it in execution order is failed.
NoResumePastFailed ==
    [][/\ AdvanceWithFailedStops
       /\ \A i \in 1..Len(steps) :
            (steps[i].status # "running" /\ steps'[i].status = "running")
                => \A j \in 1..Len(steps) : Precedes(j, i) => steps[j].status # "failed"]_vars

\* The first half of C11 on its own.
AdvanceWithFailedStopsAlways == [][AdvanceWithFailedStops]_vars

\* C12 - order violation is fatal: when the order check of start_pipeline_execution,
\* of execute_pipeline or of execute_step after its step completed fails, the
\* pipeline is written failed and no message is sent.
OrderCheckFails(p) ==
    \/ start_pipeline_execution(p) /\ lastCall'.result = "order_error"
    \/ /\ execute_pipeline(ExecutePipelineMsg(p))
       /\ PipelineUpdateAllowed(p, "running")
       /\ OrderedSteps(p).err # "none"
    \/ \E w \in Workers :
            /\ task[w].msg.pipeline_id = p
            /\ ES_Next(w)
            /\ OrderedSteps(p).err # "none"

OrderViolationFatal ==
    [][\A p \in DOMAIN pipelines :
        OrderCheckFails(p) => pipelines'[p] = "failed" /\ enq' = enq]_vars

\* The execute_step task of worker w ends in error in this step.
EndsInError(w) ==
    /\ task[w].pc # "idle"
    /\ task'[w].pc = "idle"
    /\ done' = Note(done, << "execute_step", task[w].msg.step_id, "error" >>)

\* C13 - terminal status before an error escapes: when an execute_step task that
\* has marked its step running ends in error, neither the step nor the pipeline
\* is left in status running.
TerminalStatusBeforeError ==
    [][\A w \in Workers :
        (EndsInError(w) /\ task[w].pc \in {"running", "step_failed", "saved", "completed"})
            =>  /\ steps'[task[w].msg.step_id].status # "running"
                /\ pipelines'[task[w].msg.pipeline_id] # "running"]_vars

\* C14 - retry exhaustion is fatal: a retry loop of a tool service that has ended
\* after its command failed on every one of its max_retries >= 1 attempts has
\* raised an error.
RetryExhaustionFatal ==
    (/\ rTool \in RetryTools \cup SilentRetryTools
     /\ rN >= 1
     /\ rState \notin {"idle", "looping"}
     /\ \A k \in 1..rN : rFails[k])
        => rState = "raised"

\* C15 - every failed attempt is retried: a BWA MEM or CIRI2 run ends in an error,
\* whether for a failing command or for an output that fails validation, only
\* after max_retries attempts have been made.
EveryFailedAttemptRetried ==
    (rTool \in {"bwa_mem", "ciri2"} /\ rState \in {"raised", "invalid"})
        => rAttempts = rN

\* The first half of C15: an attempt whose command fails is followed by another
\* attempt while fewer than max_retries attempts have been made.
FailedCommandRetried ==
    [][(/\ rTool \in {"bwa_mem", "ciri2"}
        /\ rState = "looping"
        /\ rAttempts < rN
        /\ rFails[rAttempts + 1]
        /\ rAttempts + 1 < rN)
            => (rState' = "looping" /\ rAttempts' = rAttempts + 1)]_vars

\* The calls of the adapter of step sid that returned, each followed by one
\* write of the step's results (execute_step, lines 165-166).
ResultWrites(sid) == { e \in BagToSet(invoked) : e.step_id = sid /\ e.outcome = "ok" }

\* C16 - results written once: the results of a step are written at most once
\* over its whole life, and never for a step whose adapter raised.
ResultsWrittenOnce ==
    \A sid \in DOMAIN steps :
        /\ \A e, f \in ResultWrites(sid) : e = f /\ CopiesIn(e, invoked) = 1
        /\ AdapterEnded(sid, "raise") => ResultWrites(sid) = {}

\* C16, the middle part: a write of a step's results is made by the task that
\* marks the step completed in its next step, and only by it.
ResultsWrittenBeforeCompleted ==
    [][\A w \in Workers :
        /\ (task[w].pc = "running" /\ task'[w].pc = "saved")
              <=> (task[w].pc = "running"
                    /\ steps'[task[w].msg.step_id].results # steps[task[w].msg.step_id].results)
        /\ (task[w].pc = "saved" /\ task'[w] # task[w])
              => steps'[task[w].msg.step_id].status = "completed"]_vars

\* C17 - strict completion order: a worker sends an execute_step message only when
\* every step before the step it names has status completed, and a step is
\* marked running only when every step before it in execution order has status
\* completed.
StrictCompletionOrder ==
    [][/\ \A w \in Workers : \A i \in 1..Len(steps) :
            (ES_Next(w) /\ enq' = Note(enq, << "execute_step", i >>))
                => \A j \in 1..Len(steps) : Precedes(j, i) => steps[j].status = "completed"
       /\ \A i \in 1..Len(steps) :
            (steps[i].status # "running" /\ steps'[i].status = "running")
                => \A j \in 1..Len(steps) : Precedes(j, i) => steps[j].status = "completed"]_vars

\* The first half of C17 for the step the worker has just completed: when the
\* worker sends the next message, its own step has been marked completed by it
\* with the results written before.
EnqueueAfterOwnCompletion ==
    [][\A w \in Workers :
        (ES_Next(w) /\ enq' # enq)
            => /\ task[w].pc = "completed"
               /\ \E e \in BagToSet(invoked) :
                    e.step_id = task[w].msg.step_id /\ e.outcome = "ok"]_vars

\* The edges of the pipeline state machine as the specification gives them.
PipelineEdges ==
    { << "pending", "running" >>, << "running", "completed" >>, << "running", "failed" >>,
      << "running", "paused" >>, << "paused", "running" >> }

\* C18 - pipeline state machine: every change of the stored status of a pipeline
\* follows one of the edges pending -> running, running -> completed,
\* running -> failed, running -> paused, paused -> running.
PipelineStateMachine ==
    [][\A p \in DOMAIN pipelines :
        (p \in DOMAIN pipelines' /\ pipelines'[p] # pipelines[p])
            => << pipelines[p], pipelines'[p] >> \in PipelineEdges]_vars

\* Every change of the stored status of a pipeline follows valid_transitions.
PipelineFollowsValidTransitions ==
    [][\A p \in DOMAIN pipelines :
        (p \in DOMAIN pipelines' /\ pipelines'[p] # pipelines[p])
            => pipelines'[p] \in valid_transitions(pipelines[p])]_vars

IdempotentErrorWitness ==
    /\ ordOut.err = "not_contiguous"
    /\ ordOut2.err = "not_contiguous"

\* C20 - pause stops advancing: a worker whose step has completed while the
\* pipeline is paused sends no message for the next step.
PauseStopsAdvancing ==
    [][\A w \in Workers :
        (ES_Next(w) /\ pipelines[task[w].msg.pipeline_id] = "paused")
            => queue' = queue /\ enq' = enq]_vars

\* The second half of C20: a pause does not interrupt the running step; the
\* worker goes on and marks it completed.
PauseKeepsRunningStep ==
    [][\A w \in Workers :
        (ES_MarkCompleted(w) /\ pipelines[task[w].msg.pipeline_id] = "paused")
            => steps'[task[w].msg.step_id].status = "completed"]_vars

PauseKeepsRunningStepWitness ==
    \E w \in Workers :
        /\ task[w].pc = "completed"
        /\ pipelines[task[w].msg.pipeline_id] = "paused"
        /\ steps[task[w].msg.step_id].status = "completed"

\* The step of pipeline p with the lowest index in STEP_EXECUTION_ORDER.
IsFirstStep(sid) ==
    /\ InOrderTable(steps[sid].step_name)
    /\ \A j \in 1..Len(steps) :
            (steps[j].pipeline_id = steps[sid].pipeline_id /\ InOrderTable(steps[j].step_name))
                => OrderIndex(steps[sid].step_name) <= OrderIndex(steps[j].step_name)

\* C21 - first step has no dependencies: in every pipeline created by
\* register_pipeline the step with the lowest index in the order table has an
\* empty input mapping, and the input its adapter is called with is the
\* declared input files of the pipeline.
FirstStepNoDependencies ==
    \A sid \in 1..Len(steps) :
        IsFirstStep(sid)
            => /\ steps[sid].input_mapping = EmptyMap
               /\ \A e \in BagToSet(invoked) :
                    e.step_id = sid => e.input_data = steps[sid].input_files

\* C21 as the code has it: the input mapping of the first step is the entry of
\* GLOBAL_INPUT_MAPPING for its name, empty or not, and its adapter is called
\* with the declared input files and nothing else.
FirstStepInputIsInputFiles ==
    \A sid \in 1..Len(steps) :
        IsFirstStep(sid)
            => /\ steps[sid].input_mapping = GLOBAL_INPUT_MAPPING(steps[sid].step_name)
               /\ \A e \in BagToSet(invoked) :
                    e.step_id = sid => e.input_data = steps[sid].input_files

FirstStepInputWitness ==
    \E sid \in 1..Len(steps) :
        /\ IsFirstStep(sid)
        /\ steps[sid].input_mapping # EmptyMap
        /\ \E e \in BagToSet(invoked) : e.step_id = sid

\* C22 - pipeline isolation: no SRRDataManager step of one pipeline writes or
\* deletes a path that the step of the other pipeline reads or writes.
PipelineIsolation ==
    \A x, y \in fsTouched :
        (x[2] = y[2] /\ x[3] = "w") => x[1] = y[1]

\* Pipelines that name different BioProjects are isolated, and each step then
\* returns the path of its compressed file.
IsolationForDifferentProjects ==
    (\A q, r \in FilePipelines : q # r => fsProj[q] # fsProj[r])
        => /\ PipelineIsolation
           /\ \A q \in FilePipelines : fsPc[q] \notin {"raised", "step_raised", "returned_no_path"}

\* What the shared paths do to pipelines on one BioProject, every command
\* succeeding: one step removes the list file the other has written and not yet
\* read, and the other ends with FileNotFoundError.
SharedProjectRaisesWitness ==
    /\ fsProj[1] = fsProj[2]
    /\ fsPc[1] = "returned_path"
    /\ fsPc[2] = "step_raised"

\* The validity predicate applied to the output of a unit of work after a run.
ValidOutput ==
    CASE kTool = "ciri2" -> validate_ciri2_output(kFile)
      [] kTool = "blastp" -> validate_blastp_xml(kFile)
      [] kTool = "diamond" -> validate_diamond_tsv(kFile)
      [] kTool = "srr" -> srr_final_path_found(kSrrFiles)
      [] OTHER -> FALSE

\* A unit of work decides whether to invoke its tool.
SkipDecision == kPc = "start" /\ kPc' # "start"

\* C23 - skip-if-valid and force_run: the external tool is not invoked when, and
\* only when, force_run is false and the declared output already satisfies the
\* validity predicate applied after a run; with force_run true it is invoked.
SkipIfValidOutput ==
    [][SkipDecision => (~kRan' <=> (~kForce /\ ValidOutput))]_vars

\* C23 holds of the CIRI2 unit of work.
SkipIfValidOutputCIRI2 ==
    [][(SkipDecision /\ kTool = "ciri2") => (~kRan' <=> (~kForce /\ ValidOutput))]_vars

\* With force_run true the BLASTP, DIAMOND and CIRI2 tools are always invoked.
ForceRunInvokes ==
    [][(SkipDecision /\ kTool # "srr" /\ kForce) => kRan']_vars

\* An output file that exists with size 0 and force_run false: BLASTP is not
\* invoked and the run ends with the validation error.
EmptyOutputNeverRerunWitness ==
    /\ kTool = "blastp" /\ ~kForce /\ kFile = "empty" /\ ~kRan /\ kPc = "rejected"

\* ---- C24 ----------------------------------------------------------------
\* The three updates of a step's status by execute_step, seen as steps of a
\* worker: w marks its step running, failed, completed.
MarksRunning(w) == task[w].pc = "enriched" /\ task'[w].pc = "running"
MarksFailed(w) == task[w].pc = "running" /\ task'[w].pc = "step_failed"
MarksCompleted(w) == task[w].pc = "saved" /\ task'[w].pc = "completed"

\* Whenever execute_step marks a step running, the row has its start timestamp
\* after the update; whenever it marks a step completed or failed, the row has
\* its end timestamp after the update.
TimestampSetInUpdate ==
    [][\A w \in Workers :
          /\ MarksRunning(w) => steps'[task[w].msg.step_id].start_time
          /\ (MarksFailed(w) \/ MarksCompleted(w)) =>
                 steps'[task[w].msg.step_id].end_time]_vars

\* Every step in status completed or failed has both timestamps (in the engine
\* only execute_step writes these statuses).
TerminalStepsStamped ==
    \A sid \in 1..Len(steps) :
        steps[sid].status \in {"completed", "failed"} =>
            steps[sid].start_time /\ steps[sid].end_time

\* C24: whenever execute_step marks a step running the start timestamp is set
\* in that update, whenever it marks a step completed or failed the end
\* timestamp is set in that update, and so every completed or failed step has
\* both timestamps.
StepTimestamps == TimestampSetInUpdate /\ []TerminalStepsStamped

\* What the code does keep: the start timestamp is set when a step is marked
\* running, and the end timestamp when it is marked completed.
StartAndCompletionStamped ==
    [][\A w \in Workers :
          /\ MarksRunning(w) => steps'[task[w].msg.step_id].start_time
          /\ MarksCompleted(w) => steps'[task[w].msg.step_id].end_time]_vars

\* A step is failed with no end timestamp, its task over.
FailedWithoutEndTimeWitness ==
    \E sid \in 1..Len(steps) :
        /\ steps[sid].status = "failed"
        /\ steps[sid].start_time
        /\ ~steps[sid].end_time
        /\ \A w \in Workers : task[w].pc = "idle"

\* ---- C25 ----------------------------------------------------------------
\* The four changes of status the claim allows.
GuardedEdges ==
    { << "pending", "running" >>, << "pending", "failed" >>,
      << "running", "completed" >>, << "running", "failed" >> }

\* A call of one of the two functions ends in this step: when it comes back
\* with an error nothing else has changed, so the step shows only in uCall.
StatusCall == uCall' # uCall \/ uRows' # uRows

\* C25: update_pipeline_status and update_pipeline_status_sync change a status
\* only along pending -> running, pending -> failed, running -> completed or
\* running -> failed; a call asking for anything else (the current status, any
\* status on a completed or failed pipeline, an id with no pipeline) raises an
\* error and leaves every pipeline's status and end_time as they were.
GuardedPipelineStatusUpdate ==
    [][StatusCall =>
        LET p == uCall'.pipeline_id
            asked == << uRows[p].status, uCall'.status >>
        IN  /\ \A q \in RowIds \ {p} : uRows'[q] = uRows[q]
            /\ uRows'[p] # uRows[p] =>
                    /\ uRows[p] # NoRow /\ asked \in GuardedEdges
                    /\ uRows'[p].status = uCall'.status
            /\ ~(uRows[p] # NoRow /\ asked \in GuardedEdges) =>
                    /\ uCall'.result = "RuntimeError"
                    /\ uRows'[p] = uRows[p]]_vars

\* A call asking for running on a completed pipeline came back with an error,
\* and the pipeline is completed with its end_time.
RejectedUpdateWitness ==
    /\ uCall.result = "RuntimeError"
    /\ uCall.status = "running"
    /\ uCall.pipeline_id = 1
    /\ uRows[1] = [status |-> "completed", end_time |-> TRUE]

\* A call asking for completed on a running pipeline went through.
AppliedUpdateWitness ==
    /\ uCall.result = "ok"
    /\ uCall.status = "completed"
    /\ uCall.pipeline_id = 1
    /\ uRows[1] = [status |-> "completed", end_time |-> TRUE]

\* ---- C26 ----------------------------------------------------------------
\* C26: in every reachable state, every step of a pipeline whose status is
\* completed is in status completed.
CompletedMeansAllDone ==
    \A p \in DOMAIN pipelines :
        pipelines[p] = "completed" =>
            \A sid \in 1..Len(steps) :
                steps[sid].pipeline_id = p => steps[sid].status = "completed"

\* A pipeline is completed, with at least one step, and no task is under way.
CompletedPipelineWitness ==
    \E p \in DOMAIN pipelines :
        /\ pipelines[p] = "completed"
        /\ \E sid \in 1..Len(steps) : steps[sid].pipeline_id = p
        /\ \A w \in Workers : task[w].pc = "idle"

\* ---- C27 ----------------------------------------------------------------
\* C27: in every reachable state, a pipeline with a step in status running is
\* itself in status running.
RunningStepImpliesRunningPipeline ==
    \A sid \in 1..Len(steps) :
        steps[sid].status = "running" => pipelines[steps[sid].pipeline_id] = "running"

\* A step is running, its adapter at work, and the pipeline is pending.
RunningStepOfPendingPipelineWitness ==
    \E w \in Workers :
        /\ task[w].pc = "running"
        /\ steps[task[w].msg.step_id].status = "running"
        /\ pipelines[task[w].msg.pipeline_id] = "pending"

\* ---- C28 ----------------------------------------------------------------
\* start_pipeline_execution has accepted the pipeline: it wrote it running and
\* sent execute_pipeline (PipelineIds has one id, so the note needs none).
AcceptedByStart(p) ==
    /\ p \in DOMAIN pipelines
    /\ CopiesIn(<< "start_pipeline_execution", 0 >>, enq) > 0

\* C28: when every message is processed and every adapter call ends, every
\* pipeline accepted by start_pipeline_execution reaches completed or failed
\* and is not left running for ever. Once no message waits and no task runs,
\* the engine does nothing more to a pipeline, so the pipeline must be
\* completed or failed by then.
ProgressToTerminalStatus ==
    \A p \in PipelineIds :
        (AcceptedByStart(p) /\ Quiescent) => pipelines[p] \in {"completed", "failed"}

\* The accepted pipeline is running, every message has been processed, every
\* task has ended, and no adapter was ever called.
LeftRunningWitness ==
    /\ AcceptedByStart(1)
    /\ Quiescent
    /\ pipelines[1] = "running"
    /\ invoked = EmptyBag
    /\ CopiesIn(<< "execute_pipeline", 0, "error" >>, done) > 0

\* ---- C29 ----------------------------------------------------------------
\* The only call made on the pipelines from outside is start_pipeline_execution:
\* run_next_pending_step has not been used. (Under SpecOnce every message is
\* delivered exactly once, and start_pipeline_execution accepts a pipeline at
\* most once: a second call finds it running, completed or failed.)
OnlyStartUsed == trig = 1 /\ CopiesIn(<< "start_pipeline_execution", 0 >>, enq) <= 1

\* Messages of pipeline p that wait on the queue or are being processed.
Outstanding(p) ==
    LET waiting == { m \in BagToSet(queue) : m.pipeline_id = p }
        Sum[S \in SUBSET waiting] ==
            IF S = {} THEN 0
            ELSE LET m == CHOOSE x \in S : TRUE
                 IN  CopiesIn(m, queue) + Sum[S \ {m}]
    IN  Sum[waiting]
          + Cardinality({ w \in Workers :
                            task[w].pc # "idle" /\ task[w].msg.pipeline_id = p })

RegistrationAndDispatchAgree ==
    (ordContig # "not_called" /\ ordOut.err # "not_called")
        =>  /\ (ordContig = "true") <=> (ordOut.err = "none")
            /\ (ordContig = "true") => (Len(ordIn) > 0 /\ ContiguousNames(ordIn))

\* Both checks have run on a list of three names that is not in canonical
\* order, and both accept it.
AgreeOnUnorderedListWitness ==
    /\ Len(ordIn) = 3
    /\ ordContig = "true"
    /\ ordOut.err = "none"
    /\ ordOut.sorted_steps # [i \in 1..Len(ordIn) |-> i]

\* Both checks have run on a list with a gap or a duplicate, and both refuse it.
AgreeOnRefusalWitness ==
    /\ Len(ordIn) >= 2
    /\ ordContig = "false"
    /\ ordOut.err = "not_contiguous"

\* In the engine, every registered pipeline passes the order check as long as
\* its steps are those register_pipeline stored.
RegisteredPipelinePassesOrderCheck ==
    \A p \in DOMAIN pipelines : OrderedSteps(p).err = "none"

====
